---- MODULE Spec2Model ----
(***************************************************************************)
(* Model of the ASICS store product-page crawler:                          *)
(*   asics_scraper.py     AsicsScraper, generate_test_urls,                *)
(*                        load_urls_from_file, main                        *)
(*   asics_scraper_ui.py  ScraperThread, MainWindow                        *)
(*                                                                         *)
(* Text is modelled as a sequence of tokens (a token is one character or   *)
(* one literal the code searches for), so that strip(), replace() and the  *)
(* regular expressions are computed on the text and not assumed.           *)
(* The Japanese status and label strings of the source are written in      *)
(* ASCII; the table is next to StatusOk below.                             *)
(***************************************************************************)
EXTENDS Integers, Sequences, FiniteSets, TLC

VARIABLES
    pc,           \* position of the run: main / ScraperThread.run / scrape_urls
    entry,        \* "cli" (asics_scraper.main) or "ui" (ScraperThread.run)
    method,       \* AsicsScraper.method
    driver,       \* AsicsScraper.driver: "none", "open", "quit"
    session,      \* AsicsScraper.session: "none", "open", "closed"
    urls,         \* the urls argument of scrape_urls
    max_retries,  \* the max_retries argument of scrape_urls
    idx,          \* index in urls of the URL being processed
    result,       \* the result dict of the URL being processed
    retry_count,  \* scrape_urls local
    success,      \* scrape_urls local
    results,      \* AsicsScraper.results
    obs,          \* observation of the URL being processed (attempts, sleeps)
    log,          \* observations of the processed URLs, one per appended Record
    file,         \* rows of the output file, <<"unwritten">> before the first write
    requested,    \* the method argument given to AsicsScraper(...)
    chrome,       \* whether webdriver.Chrome(...) can start: "ok", "fails"
    output_file,  \* whether the output_file argument of scrape_urls is set
    writes,       \* number of calls of _save_results
    run_button,   \* MainWindow.run_button.isEnabled()
    workers,      \* the ScraperThreads started by the form, in start order
    signals,      \* emitted finished/error signals not yet delivered to the form
    fn_pc,        \* position of a single-call specification
    fn_in,        \* its input
    fn_out        \* its output

vars == <<pc, entry, method, driver, session, urls, max_retries, idx, result,
          retry_count, success, results, obs, log, file, requested, chrome,
          output_file, writes, run_button, workers, signals,
          fn_pc, fn_in, fn_out>>

runVars == <<pc, entry, method, driver, session, urls, max_retries, idx, result,
             retry_count, success, results, obs, log, file, requested, chrome,
             output_file, writes>>

fnVars == <<fn_pc, fn_in, fn_out>>

uiVars == <<run_button, workers, signals>>

(***************************************************************************)
(* Bounds                                                                  *)
(***************************************************************************)
MaxUrls == 2
MaxRetries == 2

(***************************************************************************)
(* Text helpers                                                            *)
(***************************************************************************)
Empty == <<>>

IsSpace(c) == c = " "

RECURSIVE LStrip(_)
LStrip(t) == IF t # Empty /\ IsSpace(Head(t)) THEN LStrip(Tail(t)) ELSE t

RECURSIVE RStrip(_)
RStrip(t) ==
    IF t # Empty /\ IsSpace(t[Len(t)]) THEN RStrip(SubSeq(t, 1, Len(t) - 1)) ELSE t

\* str.strip()
Strip(t) == RStrip(LStrip(t))

\* `needle in text` for a one-token needle
Contains(t, tok) == \E i \in DOMAIN t : t[i] = tok

\* str.replace(old, new) for a one-token old
Replace(t, old, new) == [i \in DOMAIN t |-> IF t[i] = old THEN new ELSE t[i]]

(***************************************************************************)
(* URLs.  A URL is [origin, slash, segs]: origin is <<scheme, host>>        *)
(* (<<>> for a site-relative URL), slash tells whether the path starts     *)
(* with "/", segs are the path segments, each a sequence of character      *)
(* tokens.                                                                 *)
(***************************************************************************)
AsicsOrigin == <<"https://", "www.asics.com">>

IsUpperOrDigit(c) == c \in {"A", "B", "0", "1", "2"}    \* [A-Z0-9]
IsDigit(c) == c \in {"0", "1", "2"}                      \* [0-9]

SegJp == <<"jp">>
SegJaJp == <<"ja-jp">>
SegP == <<"p">>
SegProducts == <<"products">>
SegSale == <<"sale">>

\* url.startswith(('http://', 'https://'))
IsAbsolute(url) == url.origin # <<>> /\ url.origin[1] \in {"http://", "https://"}

\* variant: a site-relative URL is left as it is
NormalizeUrl_KeepsRelative(url) == url

\* scrape_urls, "URL形式を修正"
NormalizeUrl(url) ==
    IF IsAbsolute(url) THEN url
    ELSE [origin |-> AsicsOrigin, slash |-> TRUE, segs |-> url.segs]

\* length of the longest prefix of seg made of [A-Z0-9]
RECURSIVE IdLen(_)
IdLen(seg) ==
    IF seg # Empty /\ IsUpperOrDigit(Head(seg)) THEN 1 + IdLen(Tail(seg)) ELSE 0

\* ([A-Z0-9]+)-([0-9]{3})\.html at the start of a segment
FileMatch(seg) ==
    LET k == IdLen(seg) IN
        /\ k >= 1
        /\ Len(seg) >= k + 5
        /\ seg[k + 1] = "-"
        /\ \A j \in (k + 2)..(k + 4) : IsDigit(seg[j])
        /\ seg[k + 5] = ".html"

\* variant: the identifier group cut one character short
FileId_OffByOne(seg) == SubSeq(seg, 1, IdLen(seg) - 1)

FileId(seg) == SubSeq(seg, 1, IdLen(seg))
FileColor(seg) == SubSeq(seg, IdLen(seg) + 2, IdLen(seg) + 4)

\* the three regular expressions of _extract_product_info_from_url, as the
\* path segments they require after /jp/ja-jp/
patterns == <<
    [sale |-> FALSE, marker |-> SegP],
    [sale |-> FALSE, marker |-> SegProducts],
    [sale |-> TRUE,  marker |-> SegP] >>

\* does pattern p match the path with "jp" at segment i
MatchAt(p, url, i) ==
    LET s == url.segs
        c == IF p.sale THEN i + 3 ELSE i + 2     \* the ([^/]+) segment
    IN  /\ i >= 1
        /\ c + 2 <= Len(s)
        /\ (i > 1 \/ url.slash)
        /\ s[i] = SegJp
        /\ s[i + 1] = SegJaJp
        /\ (p.sale => s[i + 2] = SegSale)
        /\ s[c] # Empty
        /\ s[c + 1] = p.marker
        /\ FileMatch(s[c + 2])

\* re.search(pattern, url): the leftmost match, 0 when there is none
SearchPos(p, url) ==
    IF \E i \in 1..Len(url.segs) : MatchAt(p, url, i)
    THEN CHOOSE i \in 1..Len(url.segs) :
            /\ MatchAt(p, url, i)
            /\ \A j \in 1..(i - 1) : ~MatchAt(p, url, j)
    ELSE 0

NoInfo == [matched |-> FALSE, category |-> Empty, product_id |-> Empty, color |-> Empty]

GroupsOf(p, url, i) ==
    LET c == IF p.sale THEN i + 3 ELSE i + 2 IN
        [matched    |-> TRUE,
         category   |-> url.segs[c],
         product_id |-> FileId(url.segs[c + 2]),
         color      |-> FileColor(url.segs[c + 2])]

RECURSIVE InfoFrom(_, _)
InfoFrom(k, url) ==
    IF k > Len(patterns) THEN NoInfo
    ELSE IF SearchPos(patterns[k], url) # 0
         THEN GroupsOf(patterns[k], url, SearchPos(patterns[k], url))
         ELSE InfoFrom(k + 1, url)

\* AsicsScraper._extract_product_info_from_url
ExtractProductInfoFromUrl(url) == InfoFrom(1, url)

(***************************************************************************)
(* Status and label strings of the source, in ASCII:                       *)
(*   "jp:success"          '成功'            "jp:no-page"     'ページなし'    *)
(*   "jp:no-product-info"  '商品情報なし'      "jp:forbidden"   'アクセス拒否'  *)
(*   "jp:error"            'エラー'          "SUCCESS", "ERROR" as written  *)
(*   "zaiko-ari" '在庫あり'  "zaiko-gire" '在庫切れ'                          *)
(*   "zaiko-nokori-wazuka" '在庫残りわずか'                                   *)
(*   "page-not-found" 'ページが見つかりません' (also a token of page titles)    *)
(***************************************************************************)
StatusOk == "jp:success"
StatusNoPage == "jp:no-page"
StatusNoInfo == "jp:no-product-info"
StatusForbidden == "jp:forbidden"
StatusError == "jp:error"
StatusSelOk == "SUCCESS"
StatusSelError == "ERROR"

UriInStock == "http://schema.org/InStock"
UriOutOfStock == "http://schema.org/OutOfStock"
UriLimited == "http://schema.org/LimitedAvailability"
LabelInStock == "zaiko-ari"
LabelOutOfStock == "zaiko-gire"
LabelLimited == "zaiko-nokori-wazuka"

\* a title is [text, n, of]: text tokens, and the "再試行 n/of" numbers of the
\* retry messages (0/0 for every other title)
T(text) == [text |-> text, n |-> 0, of |-> 0]
TRetry(text, n, of) == [text |-> text, n |-> n, of |-> of]

\* the result dict of scrape_urls (the timestamp is not modelled)
NewResult(url, m) ==
    [url          |-> url,
     status       |-> IF m = "requests" THEN StatusError ELSE StatusSelError,
     title        |-> T(Empty),
     product_id   |-> Empty,
     price        |-> Empty,
     availability |-> Empty,
     color        |-> Empty,
     category     |-> Empty]

\* variant: the LimitedAvailability replace() is missing
MapAvailability_NoLimited(a) ==
    Replace(Replace(a, UriInStock, LabelInStock), UriOutOfStock, LabelOutOfStock)

\* the three replace() calls on a structured-data availability
MapAvailability(a) ==
    Replace(Replace(Replace(a, UriInStock, LabelInStock),
                    UriOutOfStock, LabelOutOfStock),
            UriLimited, LabelLimited)

\* `if isinstance(ld_data, list): ld_data = next(... '@type' == 'Product', {})`
RECURSIVE FirstProduct(_)
FirstProduct(items) ==
    IF items = <<>> THEN <<>>
    ELSE IF Head(items).type = "Product" THEN <<Head(items)>>
    ELSE FirstProduct(Tail(items))

\* the object the JSON-LD block denotes after the list step: <<obj>> or <<>> ({})
LdObject(block) ==
    IF block.kind = "list" THEN FirstProduct(block.items) ELSE block.items

\* The body of `try: ld_data = json.loads(...) ...` for one script block.
\* Returns the result and what the body raised: "none", "JSONDecodeError", or
\* "Exception" (AttributeError / TypeError on data of an unexpected shape).
LdApply(block, r) ==
    IF block.kind = "malformed" THEN [r |-> r, exc |-> "JSONDecodeError"]
    ELSE IF block.kind = "scalar" THEN [r |-> r, exc |-> "Exception"]
    ELSE LET o == LdObject(block) IN
        IF o = <<>> \/ o[1].type # "Product" THEN [r |-> r, exc |-> "none"]
        ELSE LET d == o[1] IN
            IF d.offers = "absent" THEN [r |-> r, exc |-> "none"]
            ELSE IF r.price = Empty /\ d.offers = "list"
                 THEN [r |-> r, exc |-> "Exception"]
            ELSE LET r1 == IF r.price = Empty
                           THEN [r EXCEPT !.price = d.price] ELSE r
                 IN  IF r1.availability # Empty THEN [r |-> r1, exc |-> "none"]
                     ELSE IF d.offers = "list" THEN [r |-> r1, exc |-> "Exception"]
                     ELSE IF d.availability = Empty THEN [r |-> r1, exc |-> "none"]
                     ELSE [r |-> [r1 EXCEPT !.availability =
                                        MapAvailability(d.availability)],
                           exc |-> "none"]

\* variant: an exception in the structured-data step discards the CSS data
ExtractProductDetails_DropsOnError(page, r) ==
    LET r1 == IF page.priceElem THEN [r EXCEPT !.price = Strip(page.priceText)] ELSE r
        r2 == IF page.availElem
              THEN [r1 EXCEPT !.availability = Strip(page.availText)] ELSE r1
    IN  IF page.ld = <<>> THEN r2
        ELSE IF LdApply(page.ld[1], r2).exc # "none" THEN r
        ELSE LdApply(page.ld[1], r2).r

\* AsicsScraper._extract_product_details (requests): CSS selection, then the
\* first JSON-LD script only (soup.find); every exception is swallowed
ExtractProductDetails(page, r) ==
    LET r1 == IF page.priceElem THEN [r EXCEPT !.price = Strip(page.priceText)] ELSE r
        r2 == IF page.availElem
              THEN [r1 EXCEPT !.availability = Strip(page.availText)] ELSE r1
    IN  IF page.ld = <<>> THEN r2 ELSE LdApply(page.ld[1], r2).r

\* the `for script in json_ld_scripts` loop of _scrape_with_selenium:
\* JSONDecodeError continues, any other exception leaves the loop
RECURSIVE SeleniumLdLoop(_, _)
SeleniumLdLoop(blocks, r) ==
    IF blocks = <<>> THEN r
    ELSE LET a == LdApply(Head(blocks), r) IN
        IF a.exc = "Exception" THEN a.r ELSE SeleniumLdLoop(Tail(blocks), a.r)

\* the inner `try: ... except Exception` of _scrape_with_selenium:
\* find_element raises NoSuchElementException when nothing matches
SeleniumDetails(page, r) ==
    IF ~page.priceElem THEN r
    ELSE LET r1 == [r EXCEPT !.price = Strip(page.priceText)] IN
        IF ~page.availElem THEN r1
        ELSE SeleniumLdLoop(page.ld,
                            [r1 EXCEPT !.availability = Strip(page.availText)])

\* "ページの存在確認": '404' in title.lower() or 'ページが見つかりません' in title
TitleSaysNotFound(title) ==
    Contains(title.text, "404") \/ Contains(title.text, "page-not-found")

\* the try body of _scrape_with_requests after a 2xx response
RequestsPage(page, r) ==
    LET r1 == [r EXCEPT !.title = IF page.hasTitle THEN T(Strip(page.title))
                                  ELSE T(<<"title-not-found">>),
                        !.status = StatusOk]
        r2 == ExtractProductDetails(page, r1)
        r3 == IF TitleSaysNotFound(r2.title)
              THEN [r2 EXCEPT !.status = StatusNoPage, !.title = T(<<"page-not-found">>)]
              ELSE r2
    IN  IF r3.price = Empty /\ r3.availability = Empty
        THEN [r3 EXCEPT !.status = StatusNoInfo, !.title = T(<<"product-info-not-found">>)]
        ELSE r3

\* what session.get / raise_for_status raise for a fetch outcome
RequestsRaised(o) ==
    CASE o.kind = "timeout"    -> "Timeout"
      [] o.kind = "connection" -> "ConnectionError"
      [] o.kind = "response"   -> IF o.code >= 400 THEN "HTTPError" ELSE "none"
      [] o.kind = "interrupt"  -> "KeyboardInterrupt"
      [] OTHER                 -> "Exception"

\* `except Exception` catches every exception but the BaseExceptions
\* (KeyboardInterrupt)
IsException(e) == e # "KeyboardInterrupt"

\* AsicsScraper._scrape_with_requests: [r, exc], exc the exception that leaves it
ScrapeWithRequests(o, r) ==
    LET e == RequestsRaised(o) IN
    CASE e = "none" -> [r |-> RequestsPage(o.page, r), exc |-> "none"]
      [] e = "HTTPError" ->
            [r |-> IF o.code = 404
                   THEN [r EXCEPT !.status = StatusNoPage,
                                  !.title = T(<<"page-not-found", "(404)">>)]
                   ELSE IF o.code = 403
                   THEN [r EXCEPT !.status = StatusForbidden,
                                  !.title = T(<<"access-denied", "(403)">>)]
                   ELSE [r EXCEPT !.status = StatusError,
                                  !.title = TRetry(<<"http-error">>, o.code, 0)],
             exc |-> "none"]
      [] ~IsException(e) -> [r |-> r, exc |-> e]
      [] OTHER ->
            [r |-> [r EXCEPT !.status = StatusError,
                             !.title = T(<<"unexpected-error", e>>)],
             exc |-> "none"]

\* what driver.get / WebDriverWait raise for a fetch outcome: the browser
\* reports no HTTP status, a page without a title element times the wait out
SeleniumRaised(o) ==
    CASE o.kind = "timeout"    -> "TimeoutException"
      [] o.kind = "connection" -> "WebDriverException"
      [] o.kind = "driver"     -> "WebDriverException"
      [] o.kind = "response"   -> IF o.page.hasTitle THEN "none" ELSE "TimeoutException"
      [] o.kind = "interrupt"  -> "KeyboardInterrupt"
      [] OTHER                 -> "Exception"

\* AsicsScraper._scrape_with_selenium: [r, exc]
ScrapeWithSelenium(o, r) ==
    LET e == SeleniumRaised(o) IN
    CASE e = "none" ->
            [r |-> SeleniumDetails(o.page,
                       [r EXCEPT !.title = T(o.page.title), !.status = StatusSelOk]),
             exc |-> "none"]
      [] e = "TimeoutException" -> [r |-> r, exc |-> "Timeout"]
      [] OTHER -> [r |-> r, exc |-> e]

(***************************************************************************)
(* The per-URL retry loop of scrape_urls                                   *)
(***************************************************************************)

\* `status_code = getattr(e, 'response', None); if status_code and hasattr(...)`:
\* only HTTPError carries a response, and a requests.Response is truthy only
\* when its status is below 400
HasStatusCode(exc, o) == exc = "HTTPError" /\ o.kind = "response" /\ o.code < 400

\* which except clause of the retry loop catches exc; "uncaught" when none does
\* (the variant without the final `except Exception` clause)
ExceptClause_NoCatchAll(exc, o) ==
    CASE exc = "Timeout" -> "timeout"
      [] exc = "ConnectionError" -> "connection"
      [] exc \in {"HTTPError", "WebDriverException"} ->
            IF HasStatusCode(exc, o)
            THEN IF o.code = 404 THEN "http-404"
                 ELSE IF o.code = 403 THEN "http-403" ELSE "http-other"
            ELSE "browser"
      [] exc \in {"RequestException", "TimeoutException"} -> "request"
      [] OTHER -> "uncaught"

\* which except clause of the retry loop catches exc; "uncaught" when none does
ExceptClause(exc, o) ==
    CASE exc = "Timeout" -> "timeout"
      [] exc = "ConnectionError" -> "connection"
      [] exc \in {"HTTPError", "WebDriverException"} ->
            IF HasStatusCode(exc, o)
            THEN IF o.code = 404 THEN "http-404"
                 ELSE IF o.code = 403 THEN "http-403" ELSE "http-other"
            ELSE "browser"
      [] exc \in {"RequestException", "TimeoutException"} -> "request"
      [] IsException(exc) -> "catch-all"
      [] OTHER -> "uncaught"

\* variant: the timeout clause does not count the retry
HandleException_TimeoutNotCounted(exc, o, r, rc, N) ==
    LET c == ExceptClause(exc, o)
        retry(text) ==
            [r |-> [r EXCEPT !.title = TRetry(text, rc + 1, N)],
             rc |-> rc + 1, brk |-> FALSE, sleep403 |-> FALSE, raised |-> FALSE]
    IN CASE c = "timeout"    ->
                [r |-> [r EXCEPT !.title = TRetry(<<"timeout">>, rc, N)],
                 rc |-> rc, brk |-> FALSE, sleep403 |-> FALSE, raised |-> FALSE]
         [] c = "connection" -> retry(<<"connection-error">>)
         [] c = "http-404"   ->
                [r |-> [r EXCEPT !.title = T(<<"page-not-found", "(404)">>)],
                 rc |-> rc, brk |-> TRUE, sleep403 |-> FALSE, raised |-> FALSE]
         [] c = "http-403"   ->
                [r |-> [r EXCEPT !.title = T(<<"access-denied", "(403)">>)],
                 rc |-> rc + 1, brk |-> FALSE, sleep403 |-> TRUE, raised |-> FALSE]
         [] c = "http-other" -> retry(<<"http-error">>)
         [] c = "browser"    -> retry(<<"browser-error">>)
         [] c = "request"    -> retry(<<"request-error">>)
         [] c = "catch-all"  -> retry(<<"unexpected-error">>)
         [] OTHER ->
                [r |-> r, rc |-> rc, brk |-> FALSE, sleep403 |-> FALSE, raised |-> TRUE]

\* the body of the except clauses: the result, the retry count, whether the
\* loop is left by `break`, whether the longer 403 sleep was slept, and whether
\* the exception leaves the loop uncaught
HandleException(exc, o, r, rc, N) ==
    LET c == ExceptClause(exc, o)
        retry(text) ==
            [r |-> [r EXCEPT !.title = TRetry(text, rc + 1, N)],
             rc |-> rc + 1, brk |-> FALSE, sleep403 |-> FALSE, raised |-> FALSE]
    IN CASE c = "timeout"    -> retry(<<"timeout">>)
         [] c = "connection" -> retry(<<"connection-error">>)
         [] c = "http-404"   ->
                [r |-> [r EXCEPT !.title = T(<<"page-not-found", "(404)">>)],
                 rc |-> rc, brk |-> TRUE, sleep403 |-> FALSE, raised |-> FALSE]
         [] c = "http-403"   ->
                [r |-> [r EXCEPT !.title = T(<<"access-denied", "(403)">>)],
                 rc |-> rc + 1, brk |-> FALSE, sleep403 |-> TRUE, raised |-> FALSE]
         [] c = "http-other" -> retry(<<"http-error">>)
         [] c = "browser"    -> retry(<<"browser-error">>)
         [] c = "request"    -> retry(<<"request-error">>)
         [] c = "catch-all"  -> retry(<<"unexpected-error">>)
         [] OTHER ->
                [r |-> r, rc |-> rc, brk |-> FALSE, sleep403 |-> FALSE, raised |-> TRUE]

\* "選択したメソッドでスクレイピング"
ScrapeWith(m, o, r) ==
    IF m = "selenium" THEN ScrapeWithSelenium(o, r) ELSE ScrapeWithRequests(o, r)

\* variant: a fetch that returned counts as a retry and does not end the loop
Iteration_ReturnRetries(m, o, r, rc, N) ==
    LET s == ScrapeWith(m, o, r) IN
        IF s.exc = "none"
        THEN [r |-> s.r, rc |-> rc + 1, success |-> FALSE, brk |-> FALSE,
              sleep403 |-> FALSE, raised |-> FALSE]
        ELSE LET h == HandleException(s.exc, o, s.r, rc, N) IN
             [r |-> h.r, rc |-> h.rc, success |-> FALSE, brk |-> h.brk,
              sleep403 |-> h.sleep403, raised |-> h.raised]

\* one iteration of `while not success and retry_count < max_retries`
\* for fetch outcome o: [r, rc, success, brk, sleep403, raised]
Iteration(m, o, r, rc, N) ==
    LET s == ScrapeWith(m, o, r) IN
        IF s.exc = "none"
        THEN [r |-> s.r, rc |-> rc, success |-> TRUE, brk |-> FALSE,
              sleep403 |-> FALSE, raised |-> FALSE]
        ELSE LET h == HandleException(s.exc, o, s.r, rc, N) IN
             [r |-> h.r, rc |-> h.rc, success |-> FALSE, brk |-> h.brk,
              sleep403 |-> h.sleep403, raised |-> h.raised]

(***************************************************************************)
(* Inputs of a run                                                         *)
(***************************************************************************)
SegFile == <<"1", "0", "A", "-", "2", "0", "0", ".html">>

UrlProduct ==
    [origin |-> AsicsOrigin, slash |-> TRUE,
     segs |-> <<SegJp, SegJaJp, <<"running">>, SegP, SegFile>>]

UrlRelative == [origin |-> <<>>, slash |-> TRUE, segs |-> <<<<"relative">>, <<"path">>>>]

RunUrls == {UrlProduct, UrlRelative}

RECURSIVE SeqsUpTo(_, _)
SeqsUpTo(S, n) ==
    IF n = 0 THEN {<<>>}
    ELSE LET shorter == SeqsUpTo(S, n - 1) IN
         shorter \cup {Append(q, x) : q \in shorter, x \in S}

NoLd == <<>>
PageProduct ==
    [hasTitle |-> TRUE, title |-> <<"GEL-KAYANO">>,
     priceElem |-> TRUE, priceText |-> <<"12000">>,
     availElem |-> TRUE, availText |-> <<"in-stock-text">>, ld |-> NoLd]
PageNotFound ==
    [hasTitle |-> TRUE, title |-> <<"404", " ", "Not Found">>,
     priceElem |-> FALSE, priceText |-> Empty,
     availElem |-> FALSE, availText |-> Empty, ld |-> NoLd]
PageError ==
    [hasTitle |-> TRUE, title |-> <<"Error">>,
     priceElem |-> FALSE, priceText |-> Empty,
     availElem |-> FALSE, availText |-> Empty, ld |-> NoLd]

Response(code, page) == [kind |-> "response", code |-> code, page |-> page]
Failure(kind) == [kind |-> kind, code |-> 0, page |-> PageError]

RunResponses ==
    {Response(200, PageProduct), Response(200, PageNotFound),
     Response(404, PageNotFound), Response(403, PageError), Response(500, PageError)}

\* the outcomes of one fetch during a run: a response of the server, or a
\* failure.  A driver failure needs the browser; Ctrl-C reaches only the
\* main thread of the command line.
RunOutcomes(m, e) ==
    RunResponses
        \cup {Failure(k) : k \in {"timeout", "connection", "unexpected"}}
        \cup (IF m = "selenium" THEN {Failure("driver")} ELSE {})
        \cup (IF e = "cli" THEN {Failure("interrupt")} ELSE {})

IsFailure(o) == o.kind \in {"timeout", "connection", "driver", "unexpected"}
                    \/ (o.kind = "response" /\ o.code >= 400)

IsTimeoutOrConnection(o) == o.kind \in {"timeout", "connection"}

NoResult == NewResult(UrlRelative, "requests")
NoOutcome == [kind |-> "none", code |-> 0, page |-> PageError]
\* events: the sleeps and fetches of the URL in the order the loop makes them
NoObs == [attempts |-> 0, sleeps |-> 0, sleeps403 |-> 0, onlyTC |-> TRUE,
          last |-> NoOutcome, via |-> "none", events |-> <<>>]

(***************************************************************************)
(* Construction and release of the scraper                                 *)
(***************************************************************************)
\* AsicsScraper._setup_requests
SetupRequests(sc) == [sc EXCEPT !.session = "open"]

\* variant: the fallback sets up the session but keeps self.method
SetupSelenium_KeepsMethod(sc, chromeOk) ==
    IF chromeOk THEN [sc EXCEPT !.driver = "open"] ELSE SetupRequests(sc)

\* AsicsScraper._setup_selenium; chromeOk: webdriver.Chrome(...) did not raise
SetupSelenium(sc, chromeOk) ==
    IF chromeOk THEN [sc EXCEPT !.driver = "open"]
    ELSE SetupRequests([sc EXCEPT !.method = "requests"])

\* AsicsScraper.__init__ (argparse and the combo box offer the two methods only)
NewScraper(m, chromeOk) ==
    LET sc == [method |-> m, driver |-> "none", session |-> "none"] IN
        IF m = "selenium" THEN SetupSelenium(sc, chromeOk) ELSE SetupRequests(sc)

\* AsicsScraper.close
Close(sc) ==
    IF sc.method = "selenium" /\ sc.driver # "none" THEN [sc EXCEPT !.driver = "quit"]
    ELSE IF sc.method = "requests" /\ sc.session # "none"
         THEN [sc EXCEPT !.session = "closed"]
         ELSE sc

Scraper == [method |-> method, driver |-> driver, session |-> session]

SetScraper(sc) ==
    /\ method' = sc.method
    /\ driver' = sc.driver
    /\ session' = sc.session

(***************************************************************************)
(* The run: main / ScraperThread.run calling scrape_urls                   *)
(***************************************************************************)
SaveEvery == 10

Unwritten == <<"unwritten">>

RetryChoices(e) == IF e = "cli" THEN 0..MaxRetries ELSE 1..MaxRetries

InitFn ==
    /\ fn_pc = "idle"
    /\ fn_in = <<>>
    /\ fn_out = <<>>

\* the form before the first click: no thread, the run button enabled
UiIdle ==
    /\ run_button = TRUE
    /\ workers = <<>>
    /\ signals = <<>>

Init ==
    /\ pc = "start"
    /\ entry \in {"cli", "ui"}
    /\ requested \in {"selenium", "requests"}
    /\ chrome \in (IF requested = "selenium" THEN {"ok", "fails"} ELSE {"ok"})
    /\ method = "none"
    /\ driver = "none"
    /\ session = "none"
    /\ urls \in SeqsUpTo(RunUrls, MaxUrls)
    /\ max_retries \in RetryChoices(entry)
    /\ idx = 1
    /\ result = NoResult
    /\ retry_count = 0
    /\ success = FALSE
    /\ results = <<>>
    /\ obs = NoObs
    /\ log = <<>>
    /\ file = Unwritten
    /\ output_file = TRUE
    /\ writes = 0
    /\ InitFn
    /\ UiIdle

\* main: "巡回するURLがありません" / start_scraping: QMessageBox.warning, return
NoUrls ==
    /\ pc = "start"
    /\ urls = <<>>
    /\ pc' = "no-urls"
    /\ UNCHANGED <<entry, method, driver, session, urls, max_retries, idx, result,
                   retry_count, success, results, obs, log, file, requested, chrome,
                   output_file, writes>>
    /\ UNCHANGED <<fnVars, uiVars>>

\* scraper = AsicsScraper(method=..., ...)
Construct ==
    /\ pc = "start"
    /\ urls # <<>>
    /\ SetScraper(NewScraper(requested, chrome = "ok"))
    /\ pc' = "loop"
    /\ UNCHANGED <<entry, urls, max_retries, idx, result, retry_count, success,
                   results, obs, log, file, requested, chrome,
                   output_file, writes>>
    /\ UNCHANGED <<fnVars, uiVars>>

\* scrape_urls lines 114-133: the result dict, the URL fix, and
\* `if product_info: result.update(product_info)`
ResultFor(url, m) ==
    LET info == ExtractProductInfoFromUrl(NormalizeUrl(url))
        r == NewResult(url, m)
    IN  IF info.matched
        THEN [r EXCEPT !.category = info.category,
                       !.product_id = info.product_id,
                       !.color = info.color]
        ELSE r

\* scrape_urls, the head of one `for url in urls` iteration: the result dict
\* with the fields taken from the URL, success = False, retry_count = 0
BeginUrl ==
    /\ pc = "loop"
    /\ idx <= Len(urls)
    /\ result' = ResultFor(urls[idx], method)
    /\ success' = FALSE
    /\ retry_count' = 0
    /\ obs' = NoObs
    /\ pc' = IF 0 < max_retries THEN "retry" ELSE "append"
    /\ UNCHANGED <<entry, method, driver, session, urls, max_retries, idx,
                   results, log, file, requested, chrome,
                   output_file, writes>>
    /\ UNCHANGED <<fnVars, uiVars>>

\* variant: only the first attempt of a URL is preceded by the sleep
AttemptEvents_SleepOnce(ev, sleep403) ==
    ev \o (IF ev = <<>> THEN <<"sleep", "fetch">> ELSE <<"fetch">>)
       \o (IF sleep403 THEN <<"sleep403">> ELSE <<>>)

\* what one iteration of the while loop adds to the events of the URL:
\* time.sleep(random.uniform(delay_range[0], delay_range[1])), then the fetch,
\* then time.sleep(random.uniform(5.0, 10.0)) in the 403 clause
AttemptEvents(ev, sleep403) ==
    ev \o <<"sleep", "fetch">> \o (IF sleep403 THEN <<"sleep403">> ELSE <<>>)

\* one iteration of the while loop for fetch outcome o: the jittered sleep,
\* the fetch by the selected method, and the except clause the fetch ends in
AttemptWith(o) ==
    /\ LET it == Iteration(method, o, result, retry_count, max_retries) IN
            /\ result' = it.r
            /\ retry_count' = it.rc
            /\ success' = it.success
            /\ obs' = [attempts  |-> obs.attempts + 1,
                       sleeps    |-> obs.sleeps + 1,
                       sleeps403 |-> obs.sleeps403 + (IF it.sleep403 THEN 1 ELSE 0),
                       onlyTC    |-> obs.onlyTC /\ IsTimeoutOrConnection(o),
                       last      |-> o,
                       via       |-> method,
                       events    |-> AttemptEvents(obs.events, it.sleep403)]
            /\ pc' = IF it.raised THEN "raised"
                     ELSE IF it.brk \/ it.success \/ ~(it.rc < max_retries)
                     THEN "append" ELSE "retry"
    /\ UNCHANGED <<entry, method, driver, session, urls, max_retries, idx,
                   results, log, file, requested, chrome,
                   output_file, writes>>
    /\ UNCHANGED <<fnVars, uiVars>>

\* one iteration of the while loop, for any outcome of the fetch
Attempt ==
    /\ pc = "retry"
    /\ \E o \in RunOutcomes(method, entry) : AttemptWith(o)

\* AsicsScraper._save_results: the whole table replaces the file
SaveResults(rows) == rows

\* variant: only a successful result is appended
AppendResult_OnlyOnSuccess ==
    /\ pc = "append"
    /\ results' = IF success THEN Append(results, result) ELSE results
    /\ log' = IF success THEN Append(log, obs) ELSE log
    /\ IF output_file /\ Len(results') % SaveEvery = 0
       THEN file' = SaveResults(results') /\ writes' = writes + 1
       ELSE UNCHANGED <<file, writes>>
    /\ idx' = idx + 1
    /\ pc' = "loop"
    /\ UNCHANGED <<entry, method, driver, session, urls, max_retries, result,
                   retry_count, success, obs, requested, chrome, output_file>>
    /\ UNCHANGED <<fnVars, uiVars>>

\* "結果を保存": self.results.append(result), and the save every 10 results
\* `if output_file and len(self.results) % 10 == 0`
AppendResult ==
    /\ pc = "append"
    /\ results' = Append(results, result)
    /\ log' = Append(log, obs)
    /\ IF output_file /\ Len(results') % SaveEvery = 0
       THEN file' = SaveResults(results') /\ writes' = writes + 1
       ELSE UNCHANGED <<file, writes>>
    /\ idx' = idx + 1
    /\ pc' = "loop"
    /\ UNCHANGED <<entry, method, driver, session, urls, max_retries, result,
                   retry_count, success, obs, requested, chrome, output_file>>
    /\ UNCHANGED <<fnVars, uiVars>>

\* variant: no save after the loop
Finish_NoFinalSave ==
    /\ pc = "loop"
    /\ idx > Len(urls)
    /\ pc' = "returned"
    /\ UNCHANGED <<entry, method, driver, session, urls, max_retries, idx, result,
                   retry_count, success, results, obs, log, file, requested, chrome,
                   output_file, writes>>
    /\ UNCHANGED <<fnVars, uiVars>>

\* scrape_urls after the loop: the DataFrame, the final save
\* `if output_file`, the summary
Finish ==
    /\ pc = "loop"
    /\ idx > Len(urls)
    /\ IF output_file
       THEN file' = SaveResults(results) /\ writes' = writes + 1
       ELSE UNCHANGED <<file, writes>>
    /\ pc' = "returned"
    /\ UNCHANGED <<entry, method, driver, session, urls, max_retries, idx, result,
                   retry_count, success, results, obs, log, requested, chrome, output_file>>
    /\ UNCHANGED <<fnVars, uiVars>>

\* sum(results['status'] == st)
CountStatus(rows, st) == Cardinality({i \in DOMAIN rows : rows[i].status = st})

\* main, "結果の詳細なサマリーを表示": the five counts it prints
MainSummary(rows) ==
    [success   |-> CountStatus(rows, StatusOk),
     no_page   |-> CountStatus(rows, StatusNoPage),
     no_info   |-> CountStatus(rows, StatusNoInfo),
     forbidden |-> CountStatus(rows, StatusForbidden),
     error     |-> CountStatus(rows, StatusError)]

\* main after scrape_urls returned: the summary, then `finally: scraper.close()`
MainDone ==
    /\ entry = "cli"
    /\ pc = "returned"
    /\ SetScraper(Close(Scraper))
    /\ pc' = "done"
    /\ UNCHANGED <<entry, urls, max_retries, idx, result, retry_count, success,
                   results, obs, log, file, requested, chrome,
                   output_file, writes>>
    /\ UNCHANGED <<fnVars, uiVars>>

\* main when scrape_urls raised: `finally: scraper.close()`, and the error
\* leaves main
MainRaised ==
    /\ entry = "cli"
    /\ pc = "raised"
    /\ SetScraper(Close(Scraper))
    /\ pc' = "interrupted"
    /\ UNCHANGED <<entry, urls, max_retries, idx, result, retry_count, success,
                   results, obs, log, file, requested, chrome,
                   output_file, writes>>
    /\ UNCHANGED <<fnVars, uiVars>>

\* ScraperThread.run after scrape_urls returned: self.finished.emit()
ThreadDone ==
    /\ entry = "ui"
    /\ pc = "returned"
    /\ pc' = "done"
    /\ UNCHANGED <<entry, method, driver, session, urls, max_retries, idx, result,
                   retry_count, success, results, obs, log, file, requested, chrome,
                   output_file, writes>>
    /\ UNCHANGED <<fnVars, uiVars>>

Next ==
    \/ NoUrls
    \/ Construct
    \/ BeginUrl
    \/ Attempt
    \/ AppendResult
    \/ Finish
    \/ MainDone
    \/ MainRaised
    \/ ThreadDone

Spec == Init /\ [][Next]_vars

Constructed == pc \notin {"start", "no-urls"}

TypeOK ==
    /\ pc \in {"start", "no-urls", "loop", "retry", "append", "returned", "raised",
               "done", "interrupted"}
    /\ method \in {"none", "selenium", "requests"}
    /\ Len(results) = Len(log)
    /\ retry_count \in 0..(MaxRetries + 1)

(***************************************************************************)
(* Long runs: the same run on lists long enough for the save every 10      *)
(* results, against a server whose answer depends on the URL only.         *)
(***************************************************************************)
MaxSaveUrls == 21

SaveUrlAt(i) == IF i % 2 = 1 THEN UrlProduct ELSE UrlRelative
SaveUrls(n) == [i \in 1..n |-> SaveUrlAt(i)]

\* the server answers the product URL with the product page and the other
\* URL with HTTP 404
SaveOutcome(url) ==
    IF url = UrlProduct THEN Response(200, PageProduct) ELSE Response(404, PageNotFound)

InitSave ==
    /\ pc = "start"
    /\ entry \in {"cli", "ui"}
    /\ requested = "requests"
    /\ chrome = "ok"
    /\ method = "none"
    /\ driver = "none"
    /\ session = "none"
    /\ urls \in {SaveUrls(n) : n \in 1..MaxSaveUrls}
    /\ max_retries = 1
    /\ idx = 1
    /\ result = NoResult
    /\ retry_count = 0
    /\ success = FALSE
    /\ results = <<>>
    /\ obs = NoObs
    /\ log = <<>>
    /\ file = Unwritten
    /\ output_file \in BOOLEAN
    /\ writes = 0
    /\ InitFn
    /\ UiIdle

\* one iteration of the while loop against that server
AttemptSave ==
    /\ pc = "retry"
    /\ AttemptWith(SaveOutcome(urls[idx]))

NextSave ==
    \/ Construct
    \/ BeginUrl
    \/ AttemptSave
    \/ AppendResult
    \/ Finish
    \/ MainDone
    \/ ThreadDone

SpecSave == InitSave /\ [][NextSave]_vars

(***************************************************************************)
(* Single-call specifications: one call of a function of the scraper on    *)
(* an input drawn from a bounded set.  The run variables stay idle.        *)
(***************************************************************************)
RunIdle ==
    /\ pc = "idle"
    /\ entry = "none"
    /\ requested = "none"
    /\ chrome = "ok"
    /\ method = "none"
    /\ driver = "none"
    /\ session = "none"
    /\ urls = <<>>
    /\ max_retries = 0
    /\ idx = 1
    /\ result = NoResult
    /\ retry_count = 0
    /\ success = FALSE
    /\ results = <<>>
    /\ obs = NoObs
    /\ log = <<>>
    /\ file = Unwritten
    /\ output_file = FALSE
    /\ writes = 0

(* ---- URLs: scrape_urls lines 114-133 on one URL ---- *)
MaxPrefix == 1

UrlIds == {<<"1", "0", "A">>, <<"A">>, <<>>, <<"a">>, <<"A", "a">>}
UrlColors == {<<"2", "0", "0">>, <<"2", "0">>, <<"2", "0", "0", "1">>, <<"2", "a", "0">>}
UrlSeps == {<<"-">>, <<>>}
UrlExts == {<<".html">>, <<>>, <<".html", "?">>}
UrlFiles == {i \o s \o c \o x : i \in UrlIds, s \in UrlSeps, c \in UrlColors, x \in UrlExts}

SegCat == <<"r", "u", "n">>
UrlLocales == {<<SegJp, SegJaJp>>, <<SegJaJp>>, <<SegJp>>}
UrlMiddles ==
    {<<SegCat, SegP>>, <<SegCat, SegProducts>>, <<SegSale, SegCat, SegP>>,
     <<SegSale, SegCat, SegProducts>>, <<SegCat>>, <<Empty, SegP>>, <<SegSale, SegP>>,
     <<SegSale, Empty, SegP>>, <<SegP, SegP>>}
UrlPrefixes == SeqsUpTo({<<"x">>}, MaxPrefix)
UrlPaths ==
    {a \o l \o m \o <<f>> : a \in UrlPrefixes, l \in UrlLocales, m \in UrlMiddles,
                            f \in UrlFiles}

AllUrls ==
    {[origin |-> o, slash |-> TRUE, segs |-> q] :
        o \in {<<>>, AsicsOrigin, <<"http://", "store.example">>}, q \in UrlPaths}
    \cup {[origin |-> <<>>, slash |-> FALSE, segs |-> q] : q \in UrlPaths}

InitUrl ==
    /\ RunIdle
    /\ UiIdle
    /\ fn_pc = "call"
    /\ fn_in \in [url : AllUrls, method : {"selenium", "requests"}]
    /\ fn_out = NoResult

CallResultFor ==
    /\ fn_pc = "call"
    /\ fn_out' = ResultFor(fn_in.url, fn_in.method)
    /\ fn_pc' = "done"
    /\ UNCHANGED fn_in
    /\ UNCHANGED <<runVars, uiVars>>

NextUrl == CallResultFor

SpecUrl == InitUrl /\ [][NextUrl]_vars

(* ---- Fetched URL: main and scrape_urls up to the first fetch of one URL ---- *)
\* the --base-url values of a run: the default and two others
BaseOrigins == {AsicsOrigin, <<"https://", "store.example">>, <<"http://", "www.asics.com">>}

FetchPaths ==
    {a \o l \o m \o <<SegFile>> : a \in UrlPrefixes, l \in UrlLocales, m \in UrlMiddles}
        \cup {<<<<"relative">>, <<"path">>>>}

\* lines of an input file: absolute URLs, and site-relative ones with and
\* without the leading "/"
FetchUrls ==
    {[origin |-> o, slash |-> TRUE, segs |-> q] : o \in BaseOrigins \cup {<<>>}, q \in FetchPaths}
        \cup {[origin |-> <<>>, slash |-> FALSE, segs |-> q] : q \in FetchPaths}

\* the url argument of self._scrape_with_selenium(url, ...) /
\* self._scrape_with_requests(url, ...): the local `url` after the URL fix
FetchedUrl(url) == NormalizeUrl(url)

InitFetch ==
    /\ RunIdle
    /\ UiIdle
    /\ fn_pc = "call"
    /\ fn_in \in [url : FetchUrls, base_url : BaseOrigins]
    /\ fn_out = UrlRelative

\* main with --base-url and an input file holding the URL: args.base_url goes
\* to generate_test_urls only, scrape_urls is called without it
CallFetch ==
    /\ fn_pc = "call"
    /\ fn_out' = FetchedUrl(fn_in.url)
    /\ fn_pc' = "done"
    /\ UNCHANGED fn_in
    /\ UNCHANGED <<runVars, uiVars>>

NextFetch == CallFetch

SpecFetch == InitFetch /\ [][NextFetch]_vars

(* ---- Input file: load_urls_from_file on one file ---- *)
MaxLines == 3

\* lines of an input file as sequences of characters, without the line end
\* (str.strip() removes it with the other surrounding whitespace)
FileLines ==
    {<<>>, <<" ">>, <<"#", "c">>, <<" ", "#", "c">>, <<"u">>, <<" ", "u", " ">>,
     <<"u", "#", "c">>, <<"/", "r">>}

RECURSIVE LoadLines(_)

\* variant: the comment test is made on the line as read
LoadLines_RawComment(lines) ==
    IF lines = <<>> THEN <<>>
    ELSE LET url == Strip(Head(lines)) IN
         (IF url # Empty /\ Head(Head(lines)) # "#" THEN <<url>> ELSE <<>>)
            \o LoadLines(Tail(lines))

\* the `for line in f` loop: url = line.strip(), kept
\* `if url and not url.startswith('#')`
LoadLines(lines) ==
    IF lines = <<>> THEN <<>>
    ELSE LET url == Strip(Head(lines)) IN
         (IF url # Empty /\ Head(url) # "#" THEN <<url>> ELSE <<>>)
            \o LoadLines(Tail(lines))

\* load_urls_from_file.  f.bad = 0: the file is read to its end; f.bad = k:
\* open() or the read of line k raises, the except clause prints, and the
\* URLs of the lines read before are returned
LoadUrlsFromFile(f) ==
    IF f.bad = 0 THEN LoadLines(f.lines)
    ELSE LoadLines(SubSeq(f.lines, 1, f.bad - 1))

InitLoad ==
    /\ RunIdle
    /\ UiIdle
    /\ fn_pc = "call"
    /\ fn_in \in {f \in [lines : SeqsUpTo(FileLines, MaxLines), bad : 0..MaxLines] :
                    f.bad <= Len(f.lines)}
    /\ fn_out = <<>>

CallLoad ==
    /\ fn_pc = "call"
    /\ fn_out' = LoadUrlsFromFile(fn_in)
    /\ fn_pc' = "done"
    /\ UNCHANGED fn_in
    /\ UNCHANGED <<runVars, uiVars>>

NextLoad == CallLoad

SpecLoad == InitLoad /\ [][NextLoad]_vars

(* ---- Test URLs: generate_test_urls on one base URL and count ---- *)
MaxCount == 2

\* two of the ten categories, two of the twenty jp_product_ids, and values of
\* random.randint(100, 999)
GenCategories == {<<"running">>, <<"track-and-field">>}
GenProductIds == {<<"1", "0", "1", "1", "A">>, <<"1", "0", "1", "2", "B">>}
GenNumbers == {<<"1", "0", "0">>, <<"2", "1", "2">>}
GenColors == {<<"2", "0", "1">>}

\* a base URL is [origin, trailing]: trailing is the number of "/" at its end
GenBases ==
    {[origin |-> AsicsOrigin, trailing |-> 0],
     [origin |-> <<"https://", "store.example">>, trailing |-> 1],
     [origin |-> AsicsOrigin, trailing |-> 2],
     [origin |-> <<>>, trailing |-> 0]}

\* `if base_url.endswith('/'): base_url = base_url[:-1]`: the "/" left at the
\* end of the base URL, each an empty path segment of the generated URL
BaseSegs(base) == [i \in 1..(IF base.trailing > 0 THEN base.trailing - 1 ELSE 0) |-> Empty]

\* variant: the file name has no color code
GenUrl_NoColor(base, category, product_id, color_code, k) ==
    LET name == product_id \o <<".html">> IN
        [origin |-> base.origin, slash |-> TRUE,
         segs |-> BaseSegs(base) \o
                  (CASE k = 1 -> <<SegJp, SegJaJp, category, SegP, name>>
                     [] k = 2 -> <<SegJp, SegJaJp, category, SegProducts, name>>
                     [] OTHER -> <<SegJp, SegJaJp, SegSale, category, SegP, name>>)]

\* url_patterns[k]
GenUrl(base, category, product_id, color_code, k) ==
    LET name == product_id \o <<"-">> \o color_code \o <<".html">> IN
        [origin |-> base.origin, slash |-> TRUE,
         segs |-> BaseSegs(base) \o
                  (CASE k = 1 -> <<SegJp, SegJaJp, category, SegP, name>>
                     [] k = 2 -> <<SegJp, SegJaJp, category, SegProducts, name>>
                     [] OTHER -> <<SegJp, SegJaJp, SegSale, category, SegP, name>>)]

\* the URLs one pass of `for _ in range(count)` can append
GenChoices(base) ==
    {GenUrl(base, c, p \o n, col, k) :
        c \in GenCategories, p \in GenProductIds, n \in GenNumbers,
        col \in GenColors, k \in 1..3}

\* the lists of n URLs, each drawn from S
RECURSIVE ListsOf(_, _)
ListsOf(S, n) ==
    IF n <= 0 THEN {<<>>}
    ELSE {Append(q, x) : q \in ListsOf(S, n - 1), x \in S}

\* the lists generate_test_urls(base_url, count) can return
GenerateTestUrls(base, count) == ListsOf(GenChoices(base), count)

InitGen ==
    /\ RunIdle
    /\ UiIdle
    /\ fn_pc = "call"
    /\ fn_in \in [base_url : GenBases, count : -1..MaxCount]
    /\ fn_out = <<>>

\* main / start_scraping without an input file:
\* urls = generate_test_urls(base_url, count)
CallGenerate ==
    /\ fn_pc = "call"
    /\ fn_out' \in GenerateTestUrls(fn_in.base_url, fn_in.count)
    /\ fn_pc' = "done"
    /\ UNCHANGED fn_in
    /\ UNCHANGED <<runVars, uiVars>>

NextGen == CallGenerate

SpecGen == InitGen /\ [][NextGen]_vars

(* ---- Extraction: one fetch attempt on a fresh result dict ---- *)
MaxLdBlocks == 2

CssTexts == {<<>>, <<" ", "12000", " ">>}
LdPrices == {<<>>, <<"12000">>}
LdAvailabilities ==
    {<<>>, <<UriInStock>>, <<UriOutOfStock>>, <<UriLimited>>, <<"PreOrder">>,
     <<"https://schema.org/InStock">>, <<UriInStock, " ">>}

LdObj(t, off, p, a) == [type |-> t, offers |-> off, price |-> p, availability |-> a]
LdOther == LdObj("BreadcrumbList", "absent", Empty, Empty)
LdProducts ==
    {LdObj("Product", "dict", p, a) : p \in LdPrices, a \in LdAvailabilities}
        \cup {LdObj("Product", "absent", Empty, Empty),
              LdObj("Product", "list", <<"12000">>, <<UriInStock>>)}

LdBlock(kind, items) == [kind |-> kind, items |-> items]
LdBlocks ==
    {LdBlock("malformed", <<>>), LdBlock("scalar", <<>>), LdBlock("object", <<LdOther>>),
     LdBlock("list", <<>>),
     LdBlock("list", <<LdOther, LdObj("Product", "dict", <<"12000">>, <<UriOutOfStock>>)>>)}
        \cup {LdBlock("object", <<d>>) : d \in LdProducts}

AllPages ==
    [hasTitle : BOOLEAN, title : {<<" ", "GEL-KAYANO">>, <<"404">>},
     priceElem : BOOLEAN, priceText : CssTexts,
     availElem : BOOLEAN, availText : CssTexts,
     ld : SeqsUpTo(LdBlocks, MaxLdBlocks)]

\* a page as the parser or the browser presents it: an element that is not
\* there has no text
WellFormedPage(page) ==
    /\ (~page.priceElem => page.priceText = Empty)
    /\ (~page.availElem => page.availText = Empty)
    /\ (~page.hasTitle => page.title = <<"404">>)

InitExtract ==
    /\ RunIdle
    /\ UiIdle
    /\ fn_pc = "call"
    /\ fn_in \in {i \in [method : {"selenium", "requests"}, page : AllPages] :
                    WellFormedPage(i.page)}
    /\ fn_out = NoResult

\* one call of _scrape_with_selenium / _scrape_with_requests for a 200 response
CallScrape ==
    /\ fn_pc = "call"
    /\ fn_out' = ScrapeWith(fn_in.method, Response(200, fn_in.page),
                            NewResult(UrlProduct, fn_in.method)).r
    /\ fn_pc' = "done"
    /\ UNCHANGED fn_in
    /\ UNCHANGED <<runVars, uiVars>>

NextExtract == CallScrape

SpecExtract == InitExtract /\ [][NextExtract]_vars

(***************************************************************************)
(* The desktop form: MainWindow and the ScraperThreads it starts.  A       *)
(* worker is [phase, left, got]: phase "running" while ScraperThread.run   *)
(* is in AsicsScraper(...) / scrape_urls with `left` URLs to go, "emitted" *)
(* after it emitted finished or error, "exited" after run returned; got    *)
(* are the signals of the worker the form has handled.  A signal emitted   *)
(* in the worker thread is queued to the thread of the form.               *)
(***************************************************************************)
MaxRuns == 3
MaxUiUrls == 2

\* variant: start_scraping leaves the run button enabled
ClickStart_KeepsButton ==
    /\ run_button
    /\ Len(workers) < MaxRuns
    /\ \E n \in 1..MaxUiUrls :
            workers' = Append(workers, [phase |-> "running", left |-> n, got |-> <<>>])
    /\ UNCHANGED <<run_button, signals>>
    /\ UNCHANGED <<runVars, fnVars>>

\* MainWindow.start_scraping with a non-empty URL list, on a click of the run
\* button: a disabled button gives no click.  (With no URL start_scraping
\* returns after the warning and changes nothing.)
ClickStart ==
    /\ run_button
    /\ Len(workers) < MaxRuns
    /\ \E n \in 1..MaxUiUrls :
            workers' = Append(workers, [phase |-> "running", left |-> n, got |-> <<>>])
    /\ run_button' = FALSE
    /\ UNCHANGED signals
    /\ UNCHANGED <<runVars, fnVars>>

\* ScraperThread.run inside scrape_urls: one URL processed
WorkerStep ==
    /\ \E w \in DOMAIN workers :
        /\ workers[w].phase = "running"
        /\ workers[w].left > 0
        /\ workers' = [workers EXCEPT ![w].left = @ - 1]
    /\ UNCHANGED <<run_button, signals>>
    /\ UNCHANGED <<runVars, fnVars>>

\* ScraperThread.run: scrape_urls returned, self.finished.emit()
WorkerFinished ==
    /\ \E w \in DOMAIN workers :
        /\ workers[w].phase = "running"
        /\ workers[w].left = 0
        /\ workers' = [workers EXCEPT ![w].phase = "emitted"]
        /\ signals' = Append(signals, [kind |-> "finished", worker |-> w])
    /\ UNCHANGED run_button
    /\ UNCHANGED <<runVars, fnVars>>

\* variant: after the error signal the worker emits finished as well
WorkerError_ThenFinished ==
    /\ \E w \in DOMAIN workers :
        /\ workers[w].phase = "running"
        /\ workers' = [workers EXCEPT ![w].phase = "emitted"]
        /\ signals' = signals \o <<[kind |-> "error", worker |-> w],
                                   [kind |-> "finished", worker |-> w]>>
    /\ UNCHANGED run_button
    /\ UNCHANGED <<runVars, fnVars>>

\* ScraperThread.run: AsicsScraper(...) or scrape_urls raised,
\* `except Exception as e: self.error.emit(str(e))`
WorkerError ==
    /\ \E w \in DOMAIN workers :
        /\ workers[w].phase = "running"
        /\ workers' = [workers EXCEPT ![w].phase = "emitted"]
        /\ signals' = Append(signals, [kind |-> "error", worker |-> w])
    /\ UNCHANGED run_button
    /\ UNCHANGED <<runVars, fnVars>>

\* ScraperThread.run returns, the thread ends
WorkerExit ==
    /\ \E w \in DOMAIN workers :
        /\ workers[w].phase = "emitted"
        /\ workers' = [workers EXCEPT ![w].phase = "exited"]
    /\ UNCHANGED <<run_button, signals>>
    /\ UNCHANGED <<runVars, fnVars>>

\* MainWindow.scraping_finished / scraping_error for the oldest queued signal
DeliverSignal ==
    /\ signals # <<>>
    /\ run_button' = TRUE
    /\ signals' = Tail(signals)
    /\ workers' = [workers EXCEPT ![Head(signals).worker].got =
                                    Append(@, Head(signals).kind)]
    /\ UNCHANGED <<runVars, fnVars>>

InitUi ==
    /\ RunIdle
    /\ InitFn
    /\ UiIdle

NextUi ==
    \/ ClickStart
    \/ WorkerStep
    \/ WorkerFinished
    \/ WorkerError
    \/ WorkerExit
    \/ DeliverSignal

SpecUi == InitUi /\ [][NextUi]_vars

\* The worker thread keeps running while the form waits (a fetch returns or
\* fails within its timeout), and the event loop of app.exec_() handles
\* every queued signal.
SpecUiFair ==
    /\ SpecUi
    /\ WF_vars(WorkerStep)
    /\ WF_vars(WorkerFinished)
    /\ WF_vars(DeliverSignal)

(***************************************************************************)
(* Properties                                                              *)
(***************************************************************************)
Returned == pc \in {"returned", "done"}

\* C1: when scrape_urls returns, the Result Table has exactly one row per
\* input URL, in input order, whatever the fetch outcomes were.
C1_OneRowPerUrl ==
    Returned =>
        /\ Len(results) = Len(urls)
        /\ \A i \in DOMAIN urls : results[i].url = urls[i]

C1_Witness ==
    /\ pc = "returned"
    /\ Len(urls) = 2
    /\ urls[1] # urls[2]
    /\ IsFailure(log[1].last)
    /\ log[2].last = Response(200, PageProduct)

\* the fetch returned a 404 response or a page whose title says not-found
NotFoundFetched(o) ==
    o.kind = "response" /\ (o.code = 404 \/ TitleSaysNotFound(T(o.page.title)))

\* C2: a 404 response or a not-found page gives the Record the not-found
\* status, and no further attempt is made for the URL.
C2_NotFoundIsTerminal ==
    /\ (obs.attempts >= 1 /\ NotFoundFetched(obs.last)) => pc # "retry"
    /\ \A i \in DOMAIN results :
            NotFoundFetched(log[i].last) =>
                /\ results[i].status = StatusNoPage
                /\ log[i].attempts = 1

\* C3: when every attempt for a URL fails with a timeout or a connection
\* failure, exactly max_retries attempts are made and the status is not success.
C3_ExactlyMaxRetriesAttempts ==
    \A i \in DOMAIN results :
        (log[i].attempts >= 1 /\ log[i].onlyTC) =>
            /\ log[i].attempts = max_retries
            /\ results[i].status \notin {StatusOk, StatusSelOk}

\* C4: after an attempt that ended in HTTP 403 with retry budget left, the
\* attempt is counted as a retry, the longer 403 sleep was slept, and the loop
\* goes on to a next attempt.
C4_ForbiddenSleepsLonger ==
    (/\ pc \in {"retry", "append"}
     /\ obs.attempts >= 1
     /\ obs.attempts < max_retries
     /\ obs.last.kind = "response"
     /\ obs.last.code = 403)
        => /\ retry_count >= 1
           /\ obs.sleeps403 >= 1
           /\ pc = "retry"

\* C5: no failure of a fetch or extract attempt leaves the processing of its
\* URL: scrape_urls is left by an error only on an interrupt, every URL taken
\* up gets its Record, and a run that returns has processed every URL.
C5_FailuresStayInUrl ==
    /\ pc = "raised" => ~IsFailure(obs.last)
    /\ pc = "loop" => Len(results) = idx - 1
    /\ pc = "append" => Len(results) = idx - 1 /\ idx <= Len(urls)
    /\ Returned => idx = Len(urls) + 1 /\ Len(results) = Len(urls)

C5_Witness ==
    /\ pc = "done"
    /\ Len(results) = 2
    /\ log[1].last = Failure("unexpected")
    /\ log[1].via = "selenium"
    /\ log[2].attempts >= 1

\* the fetcher resource of the run is released
Released ==
    \/ method = "selenium" /\ driver = "quit"
    \/ method = "requests" /\ session = "closed"

\* C6: every run that constructed a scraper ends with the fetcher resource
\* released, from the command line and from the desktop form's worker, on a
\* normal end and on an uncaught error.
C6_ResourceReleased == pc \in {"done", "interrupted"} => Released

C7_State ==
    Constructed =>
        /\ method \in {"selenium", "requests"}
        /\ method = "selenium" => driver # "none"
        /\ method = "requests" => session # "none"
        /\ (requested = "selenium" /\ chrome = "fails") =>
                /\ method = "requests"
                /\ pc \notin {"done", "interrupted"} => session = "open"
                /\ obs.via # "selenium"
                /\ \A i \in DOMAIN log : log[i].via # "selenium"

\* C7: when the browser fails to start, the scraper is constructed with the
\* requests method and an open session and fetches every URL by requests; the
\* method never changes after construction; the resource of the selected
\* method always exists.
C7_FallbackIsPermanent ==
    /\ []C7_State
    /\ [][Constructed => method' = method]_vars

C7_Witness ==
    /\ pc = "done"
    /\ requested = "selenium"
    /\ chrome = "fails"
    /\ Len(log) = 2
    /\ log[1].via = "requests"
    /\ log[2].via = "requests"

\* the Product objects of the page's JSON-LD blocks whose offers carry a
\* price and an availability
OfferProducts(page) ==
    {d \in UNION {{b.items[j] : j \in DOMAIN b.items} : b \in {page.ld[k] : k \in DOMAIN page.ld}} :
        /\ d.type = "Product"
        /\ d.offers = "dict"
        /\ d.price # Empty
        /\ d.availability # Empty}

\* the label of a recognized schema.org availability URI, any other token itself
LabelOf(tok) ==
    CASE tok = UriInStock    -> LabelInStock
      [] tok = UriOutOfStock -> LabelOutOfStock
      [] tok = UriLimited    -> LabelLimited
      [] OTHER               -> tok

Labelled(a) == [i \in DOMAIN a |-> LabelOf(a[i])]

\* C8: when no CSS candidate matches for price and availability and the page
\* embeds a JSON-LD Product whose offers carry both, the Record's price is the
\* offers price and its availability the mapped offers availability.
C8_StructuredDataFallback ==
    (/\ fn_pc = "done"
     /\ fn_in.page.hasTitle
     /\ ~fn_in.page.priceElem
     /\ ~fn_in.page.availElem
     /\ Cardinality(OfferProducts(fn_in.page)) = 1)
        => \A d \in OfferProducts(fn_in.page) :
                /\ fn_out.price = d.price
                /\ fn_out.availability = Labelled(d.availability)

\* the availability of the Record was taken from structured data: the CSS
\* selection gave none, and the Record has one
AvailabilityFromLd ==
    /\ fn_pc = "done"
    /\ fn_out.availability # Empty
    /\ Strip(fn_in.page.availText) = Empty

\* the availability values the page's JSON-LD blocks carry
PageLdAvailabilities(page) ==
    {d.availability :
        d \in UNION {{b.items[j] : j \in DOMAIN b.items} :
                        b \in {page.ld[k] : k \in DOMAIN page.ld}}}

HasRecognizedUri(a) ==
    \E i \in DOMAIN a : a[i] \in {UriInStock, UriOutOfStock, UriLimited}

\* C9 as claimed: an availability taken from structured data that contains a
\* recognized URI is stored as exactly one of the three labels, any other is
\* stored unchanged.
C9_ExactlyOneLabel ==
    AvailabilityFromLd =>
        \E a \in PageLdAvailabilities(fn_in.page) :
            \/ /\ HasRecognizedUri(a)
               /\ fn_out.availability \in
                    {<<LabelInStock>>, <<LabelOutOfStock>>, <<LabelLimited>>}
            \/ /\ ~HasRecognizedUri(a)
               /\ fn_out.availability = a

\* C9: in an availability taken from structured data every occurrence of a
\* recognized schema.org URI is replaced by its label and the rest of the text
\* is kept: a value that is exactly one recognized URI is stored as exactly its
\* label, a value without a recognized URI is stored unchanged.
C9_UrisReplacedByLabels ==
    AvailabilityFromLd =>
        \E a \in PageLdAvailabilities(fn_in.page) :
            /\ Len(fn_out.availability) = Len(a)
            /\ \A i \in DOMAIN a : fn_out.availability[i] = LabelOf(a[i])

C9_Witness ==
    /\ AvailabilityFromLd
    /\ fn_in.method = "selenium"
    /\ fn_out.availability = <<LabelLimited>>

\* the URL as fetched matches one of the three path templates
KnownTemplate(url) ==
    \E k \in DOMAIN patterns :
        \E i \in 1..Len(url.segs) : MatchAt(patterns[k], NormalizeUrl(url), i)

\* C10: the Record of a URL that matches a known path template has non-empty
\* category, product identifier and color; the Record of a URL that matches
\* none has all three empty.
C10_UrlFields ==
    fn_pc = "done" =>
        IF KnownTemplate(fn_in.url)
        THEN /\ fn_out.category # Empty
             /\ fn_out.product_id # Empty
             /\ fn_out.color # Empty
        ELSE /\ fn_out.category = Empty
             /\ fn_out.product_id = Empty
             /\ fn_out.color = Empty

C10_Witness ==
    /\ fn_pc = "done"
    /\ fn_in.url.origin = <<>>
    /\ ~fn_in.url.slash
    /\ fn_in.url.segs[3] = SegSale
    /\ fn_out.category = SegCat
    /\ fn_out.product_id = <<"A">>
    /\ fn_out.color = <<"2", "0", "0">>

\* C11 as claimed: a site-relative URL is fetched under the origin configured
\* for the run (--base-url), an absolute URL is fetched unchanged.
C11_ResolvedUnderBaseOrigin ==
    fn_pc = "done" =>
        IF IsAbsolute(fn_in.url)
        THEN fn_out = fn_in.url
        ELSE /\ fn_out.origin = fn_in.base_url
             /\ fn_out.segs = fn_in.url.segs

\* C11: a site-relative URL is fetched under the fixed origin
\* https://www.asics.com, with a "/" between origin and path, whatever the
\* --base-url of the run; an absolute URL is fetched unchanged.
C11_ResolvedUnderAsicsOrigin ==
    fn_pc = "done" =>
        IF IsAbsolute(fn_in.url)
        THEN fn_out = fn_in.url
        ELSE /\ fn_out.origin = AsicsOrigin
             /\ fn_out.slash
             /\ fn_out.segs = fn_in.url.segs

C11_Witness ==
    /\ fn_pc = "done"
    /\ fn_in.url = [origin |-> <<>>, slash |-> FALSE, segs |-> <<<<"relative">>, <<"path">>>>]
    /\ fn_in.base_url = <<"https://", "store.example">>
    /\ fn_out.origin = AsicsOrigin

\* C12: in a run with an output file, _save_results is called exactly when
\* the number of Records reaches a multiple of 10 and once more when the run
\* ends; after a write the file is the whole table so far, in input order;
\* after the run it has one row per input URL.
C12_SaveSchedule ==
    output_file =>
        /\ writes = (Len(results) \div SaveEvery) + (IF Returned THEN 1 ELSE 0)
        /\ writes = 0 => file = Unwritten
        /\ writes > 0 =>
            /\ Len(file) = IF Returned THEN Len(results)
                           ELSE (Len(results) \div SaveEvery) * SaveEvery
            /\ file = SubSeq(results, 1, Len(file))
            /\ \A i \in DOMAIN file : file[i].url = urls[i]
        /\ Returned => Len(file) = Len(urls)

C12_Witness ==
    /\ pc = "done"
    /\ output_file
    /\ Len(urls) = 20
    /\ writes = 3
    /\ Len(file) = 20
    /\ file[20].status = StatusNoPage

\* the last attempt for the URL being processed ended in success or in not-found
EndedForGood ==
    /\ obs.attempts >= 1
    /\ \/ success
       \/ result.status \in {StatusOk, StatusSelOk}
       \/ NotFoundFetched(obs.last)

\* C13: once an attempt for a URL ends in success or in not-found, the loop
\* makes no further attempt for that URL, whatever the retry budget: the run
\* goes on to append the Record, and the next attempt is the first of the
\* next URL.
C13_NoAttemptAfterEnd ==
    /\ EndedForGood => pc # "retry"
    /\ (pc = "retry" /\ obs.attempts = 0) => Len(results) = idx - 1

C13_Witness ==
    /\ pc = "append"
    /\ max_retries = 2
    /\ idx = 2
    /\ log[1].last = Response(200, PageProduct)
    /\ log[1].attempts = 1
    /\ obs.last = Response(404, PageNotFound)
    /\ obs.attempts = 1
    /\ obs.via = "requests"

\* every fetch of the events is immediately preceded by a normal sleep
SleepBeforeEachFetch(ev) ==
    \A i \in DOMAIN ev : ev[i] = "fetch" => (i > 1 /\ ev[i - 1] = "sleep")

FetchCount(ev) == Cardinality({i \in DOMAIN ev : ev[i] = "fetch"})

\* C14: every fetch attempt, the first of a URL and every retry, is
\* immediately preceded by one sleep of the normal delay window.
C14_SleepBeforeEachFetch ==
    /\ SleepBeforeEachFetch(obs.events)
    /\ FetchCount(obs.events) = obs.attempts
    /\ \A i \in DOMAIN log :
            /\ SleepBeforeEachFetch(log[i].events)
            /\ FetchCount(log[i].events) = log[i].attempts

C14_Witness ==
    /\ pc = "append"
    /\ obs.via = "selenium"
    /\ obs.attempts = 2
    /\ obs.events = <<"sleep", "fetch", "sleep", "fetch">>
    /\ obs.last = Response(200, PageProduct)

\* the fetch ended in an HTTP error status other than 403 and 404, or in a
\* driver-level error
OtherHttpOrDriverError(o) ==
    \/ o.kind = "response" /\ o.code >= 400 /\ o.code \notin {403, 404}
    \/ o.kind = "driver"

\* C15: after an attempt that ended in an HTTP status other than 403 and 404
\* or in a driver-level error, the retry count has been incremented, and while
\* it is below max_retries the loop goes on to another attempt for the URL.
C15_OtherErrorsRetry ==
    (/\ pc \in {"retry", "append"}
     /\ obs.attempts >= 1
     /\ OtherHttpOrDriverError(obs.last))
        => /\ retry_count >= 1
           /\ retry_count < max_retries => pc = "retry"

IsSuccessStatus(st) == st \in {StatusOk, StatusSelOk}

\* the single call fetched a page: under selenium a page without a title
\* element times the wait out instead
PageRetrieved ==
    /\ fn_pc = "done"
    /\ fn_in.method = "requests" \/ fn_in.page.hasTitle

\* the title of the fetched page matches the not-found pattern
PageTitleNotFound(page) == page.hasTitle /\ TitleSaysNotFound(T(Strip(page.title)))

\* C16: after a page was retrieved, a Record without price and availability
\* has the no-product-info status, a Record of a not-found page that has one
\* of them has the no-page status, and the status is success only when the
\* page is not a not-found page and price or availability was found.
C16_PostHocClassification ==
    PageRetrieved =>
        LET noInfo == fn_out.price = Empty /\ fn_out.availability = Empty
            notFound == PageTitleNotFound(fn_in.page)
        IN  /\ noInfo => fn_out.status = StatusNoInfo
            /\ (notFound /\ ~noInfo) => fn_out.status = StatusNoPage
            /\ IsSuccessStatus(fn_out.status) => (~notFound /\ ~noInfo)

\* the structured-data block is unparsable, not an object, or holds no
\* Product object whose offers are an object
UnusableLd(b) ==
    \/ b.kind \in {"malformed", "scalar"}
    \/ \A j \in DOMAIN b.items :
            b.items[j].type # "Product" \/ b.items[j].offers # "dict"

\* the fetched page carries structured data, none of it usable
OnlyUnusableLd(page) ==
    /\ page.ld # <<>>
    /\ \A k \in DOMAIN page.ld : UnusableLd(page.ld[k])

\* the same page without its structured data
WithoutLd(page) == [page EXCEPT !.ld = <<>>]

\* C17: on a retrieved page whose structured data is malformed or of an
\* unexpected shape the fetch call returns (no failure, no retry) with the
\* Record the page would give without structured data: the price is the text
\* of the CSS price element, and nothing is added.
C17_ExtractionNeverFails ==
    (PageRetrieved /\ OnlyUnusableLd(fn_in.page)) =>
        LET call(page) == ScrapeWith(fn_in.method, Response(200, page),
                                     NewResult(UrlProduct, fn_in.method))
        IN  /\ call(fn_in.page).exc = "none"
            /\ fn_out = call(WithoutLd(fn_in.page)).r
            /\ fn_out.status \notin {StatusError, StatusSelError}
            /\ fn_out.price = IF fn_in.page.priceElem
                              THEN Strip(fn_in.page.priceText) ELSE Empty
            /\ fn_out.availability \in {Empty, Strip(fn_in.page.availText)}

C17_Witness ==
    /\ fn_pc = "done"
    /\ fn_in.method = "requests"
    /\ fn_in.page.ld = <<LdBlock("scalar", <<>>), LdBlock("malformed", <<>>)>>
    /\ fn_out.price = <<"12000">>
    /\ fn_out.availability = Empty
    /\ fn_out.status = StatusOk

\* the status labels main reports
StatusVocabulary == {StatusOk, StatusNoPage, StatusNoInfo, StatusForbidden, StatusError}

\* the loop ended for Record i because the retry count reached max_retries
RetriesExhausted(i) ==
    /\ max_retries > 0
    /\ results[i].title.n = max_retries
    /\ results[i].title.of = max_retries

\* C18: the status of every Record is a value of one status vocabulary,
\* whichever method the run uses, and the status of a Record whose retries
\* were exhausted tells the kind of its last error: two such Records with
\* last errors of different kinds have different statuses.
C18_OneStatusVocabulary ==
    /\ \A i \in DOMAIN results : results[i].status \in StatusVocabulary
    /\ \A i, j \in DOMAIN results :
            (/\ RetriesExhausted(i)
             /\ RetriesExhausted(j)
             /\ log[i].last.kind # log[j].last.kind)
                => results[i].status # results[j].status

\* C19: at the end of a command-line run the counts main reports sum to the
\* number of input URLs, and the reported success count is the number of
\* Records with the success status.
C19_CountsPartitionTable ==
    (entry = "cli" /\ pc = "done") =>
        LET s == MainSummary(results) IN
            /\ s.success + s.no_page + s.no_info + s.forbidden + s.error = Len(urls)
            /\ s.success = Cardinality({i \in DOMAIN results :
                                            IsSuccessStatus(results[i].status)})

\* the workers that are inside their orchestrator run
RunningWorkers == {w \in DOMAIN workers : workers[w].phase = "running"}

\* C20: whatever the clicks and the worker completions, at most one worker
\* is inside a run at any time; while the run button is enabled none is; a
\* worker is started only when every earlier worker has reported completion
\* or failure.
C20_AtMostOneWorker ==
    /\ Cardinality(RunningWorkers) <= 1
    /\ run_button => RunningWorkers = {}
    /\ \A w \in DOMAIN workers : w < Len(workers) => workers[w].phase # "running"

C20_Witness ==
    /\ Len(workers) = 3
    /\ workers[1].phase = "exited"
    /\ workers[2].phase = "emitted"
    /\ workers[3] = [phase |-> "running", left |-> 1, got |-> <<>>]
    /\ ~run_button
    /\ signals = <<>>

\* the queued signals of worker w
PendingFor(w) == {k \in DOMAIN signals : signals[k].worker = w}

C21_State ==
    /\ \A w \in DOMAIN workers :
            /\ Len(workers[w].got) + Cardinality(PendingFor(w)) <= 1
            /\ (workers[w].got # <<>> \/ PendingFor(w) # {}) => workers[w].phase # "running"
            /\ workers[w].phase # "running" =>
                    Len(workers[w].got) + Cardinality(PendingFor(w)) = 1
    /\ workers # <<>> =>
            (run_button <=> workers[Len(workers)].got # <<>>)

\* C21: every run started from the form is notified to the form exactly
\* once, by finished or by error and never by both, and only after the worker
\* left its run; the run button is disabled from the start of the run until
\* that notification and enabled by it; and the notification does arrive.
C21_OneNotification ==
    /\ []C21_State
    /\ \A w \in 1..MaxRuns :
            (Len(workers) >= w) ~> (Len(workers) >= w /\ Len(workers[w].got) = 1)

C21_Witness ==
    /\ Len(workers) = 2
    /\ workers[1].got = <<"error">>
    /\ workers[2].got = <<"finished">>
    /\ workers[2].left = 0
    /\ run_button
    /\ signals = <<>>

\* the line is blank: nothing but whitespace
BlankLine(l) == \A j \in DOMAIN l : IsSpace(l[j])

\* the first character of the line that is not whitespace is '#'
CommentLine(l) ==
    \E j \in DOMAIN l : l[j] = "#" /\ \A k \in 1..(j - 1) : IsSpace(l[k])

\* the indexes of the lines that are neither blank nor a comment
KeptLines(lines) ==
    {i \in DOMAIN lines : ~BlankLine(lines[i]) /\ ~CommentLine(lines[i])}

\* the k-th of them in file order
KeptLine(lines, k) ==
    CHOOSE i \in KeptLines(lines) :
        Cardinality({j \in KeptLines(lines) : j <= i}) = k

\* C22: load_urls_from_file on a file it can read returns one URL for every
\* line that is neither blank nor a comment, in file order, each the line
\* without its surrounding whitespace; no returned URL is empty or starts
\* with '#'.
C22_LoadedUrls ==
    (fn_pc = "done" /\ fn_in.bad = 0) =>
        /\ Len(fn_out) = Cardinality(KeptLines(fn_in.lines))
        /\ \A k \in DOMAIN fn_out :
                /\ fn_out[k] = Strip(fn_in.lines[KeptLine(fn_in.lines, k)])
                /\ fn_out[k] # Empty
                /\ fn_out[k][1] # "#"

C22_Witness ==
    /\ fn_pc = "done"
    /\ fn_in.bad = 0
    /\ fn_in.lines = << <<" ", "#", "c">>, <<" ", "u", " ">>, <<"/", "r">> >>
    /\ fn_out = << <<"u">>, <<"/", "r">> >>

\* C23: generate_test_urls returns exactly count URLs (none for a negative
\* count), every one of them matches a known path template, and the Record of
\* every one of them, under either method, has a non-empty category, product
\* identifier and color.
C23_GeneratedUrls ==
    fn_pc = "done" =>
        /\ Len(fn_out) = IF fn_in.count < 0 THEN 0 ELSE fn_in.count
        /\ \A i \in DOMAIN fn_out :
                /\ KnownTemplate(fn_out[i])
                /\ \A m \in {"selenium", "requests"} :
                        LET r == ResultFor(fn_out[i], m) IN
                            /\ r.category \in GenCategories
                            /\ r.product_id # Empty
                            /\ r.color \in GenColors

C23_Witness ==
    /\ fn_pc = "done"
    /\ fn_in.count = 2
    /\ fn_in.base_url.trailing = 2
    /\ Len(fn_out) = 2
    /\ fn_out[1].segs[4] = SegSale
    /\ fn_out[2].segs[5] = SegProducts
    /\ ResultFor(fn_out[1], "requests").category = <<"track-and-field">>

\* the attempts made for the URLs processed so far
RECURSIVE SumAttempts(_)
SumAttempts(l) == IF l = <<>> THEN 0 ELSE Head(l).attempts + SumAttempts(Tail(l))

TotalAttempts ==
    SumAttempts(log) + (IF pc \in {"retry", "append", "raised"} THEN obs.attempts ELSE 0)

\* a bound on the number of steps the run can still take
Remaining ==
    LET perUrl == max_retries + 2 IN
    CASE pc = "start"    -> Len(urls) * perUrl + 3
      [] pc = "loop"     -> (Len(urls) + 1 - idx) * perUrl + 2
      [] pc = "retry"    -> (Len(urls) - idx) * perUrl + 3 + (max_retries - retry_count)
      [] pc = "append"   -> (Len(urls) - idx) * perUrl + 3
      [] pc = "returned" -> 1
      [] pc = "raised"   -> 1
      [] OTHER           -> 0

C24_State ==
    /\ obs.attempts <= max_retries
    /\ \A i \in DOMAIN log : log[i].attempts <= max_retries
    /\ TotalAttempts <= max_retries * Len(urls)
    /\ pc = "retry" => retry_count < max_retries
    /\ pc = "raised" => entry = "cli"
    /\ Remaining >= 0

\* C24: scrape_urls terminates: every step of the run lowers a bound on the
\* steps still to come, every attempt that does not end the loop of its URL
\* increments the retry count, at most max_retries attempts are made per URL
\* and at most max_retries times the number of URLs in all.
C24_Terminates ==
    /\ []C24_State
    /\ [][Remaining' < Remaining]_vars
    /\ [][(pc = "retry" /\ pc' = "retry") => retry_count' = retry_count + 1]_vars

C24_Witness ==
    /\ pc = "done"
    /\ max_retries = 2
    /\ Len(urls) = 2
    /\ log[1].attempts = 2
    /\ log[1].last = Failure("timeout")
    /\ log[2].attempts = 2
    /\ log[2].last = Failure("driver")
    /\ TotalAttempts = 4

\* C25: every Record of the Result Table is of a URL that was fetched at
\* least once.
C25_FetchedBeforeAppended ==
    \A i \in DOMAIN log : log[i].attempts >= 1

====
